---- MODULE Spec2Model ----
(***************************************************************************)
(* sayit: text is split into chunks (split_input), one fetch task per      *)
(* chunk asks the speech service for audio and sends (index, bytes) into a *)
(* bounded mpsc channel, and one consumer task either plays the fragments  *)
(* in index order (play_audio_from_queue) or appends them to a file        *)
(* (audio_to_output_file).  Two specifications:                            *)
(*   SpecChunk  the loop of split_input over bounded texts and limits      *)
(*   Spec       main, the fetch tasks, the channel and the consumer        *)
(***************************************************************************)
EXTENDS Integers, Sequences, FiniteSets, TLC

\* ---------------------------------------------------------------- bounds
\* longest input text, in bytes
MaxTextLen == 5
\* largest max_length handed to split_input
MaxMaxLength == 4
\* largest number of chunks (fetch tasks) of a run
MaxChunks == 3
\* capacity of the mpsc channel: main.rs:213 uses 32, scaled here so that
\* a run can have more senders waiting than the channel has slots, also
\* when one of the tasks never sends
ChannelCapacity == 1

VARIABLES
    \* split_input
    input_text, max_length, words, chunks, current_chunk, current_length, spc,
    \* main
    mode, nchunks, api_key, mainPc, handle, audio_tx, exit_code,
    \* fetch_and_process_audio, one per chunk
    task, outcome, calls, sent, reported,
    \* the channel
    chan,
    \* the consumer task
    cons, file, write_failed, buffer, next_index,
    \* what the consumer has done so far
    received, early, released, played, skipped, sink_failed,
    \* the reorder buffer of the design (pending, next_index, released), fed
    \* with the same arrivals as the player
    ref

chunkVars == <<input_text, max_length, words, chunks, current_chunk,
               current_length, spc>>
mainVars  == <<mode, nchunks, api_key, mainPc, handle, audio_tx, exit_code>>
fetchVars == <<task, outcome, calls, sent, reported>>
consVars  == <<cons, file, write_failed, buffer, next_index,
               received, early, released, played, skipped, sink_failed, ref>>
pipeVars  == <<mainVars, fetchVars, chan, consVars>>
vars      == <<chunkVars, pipeVars>>

\* ------------------------------------------------------------ text helpers
Whitespace == {" ", "\n"}
Chars      == {"a", "b"} \cup Whitespace
Texts      == UNION {[1..n -> Chars] : n \in 0..MaxTextLen}

RECURSIVE SplitWs(_, _, _, _)
SplitWs(s, i, cur, acc) ==
    IF i > Len(s)
    THEN IF cur = <<>> THEN acc ELSE Append(acc, cur)
    ELSE IF s[i] \in Whitespace
         THEN SplitWs(s, i + 1, <<>>, IF cur = <<>> THEN acc ELSE Append(acc, cur))
         ELSE SplitWs(s, i + 1, Append(cur, s[i]), acc)

\* str::split_whitespace: the maximal runs of non-whitespace, in order
split_whitespace(s) == SplitWs(s, 1, <<>>, <<>>)

\* [String]::join(sep)
RECURSIVE join(_, _)
join(ws, sep) ==
    IF ws = <<>> THEN <<>>
    ELSE IF Len(ws) = 1 THEN ws[1]
    ELSE ws[1] \o sep \o join(Tail(ws), sep)

\* ------------------------------------------------------------- split_input
\* a plausible slip: the new chunk's length is not restarted from its word
SplitStepKeepsLength(st, word, limit) ==
    IF st.current_length + Len(word) + 1 > limit
    THEN [chunks         |-> Append(st.chunks, join(st.current_chunk, <<" ">>)),
          current_chunk  |-> <<word>>,
          current_length |-> 0]
    ELSE [chunks         |-> st.chunks,
          current_chunk  |-> Append(st.current_chunk, word),
          current_length |-> st.current_length + Len(word) + 1]

\* a plausible slip: the word that overflows the chunk is not carried into
\* the next one
SplitStepDropsWord(st, word, limit) ==
    IF st.current_length + Len(word) + 1 > limit
    THEN [chunks         |-> Append(st.chunks, join(st.current_chunk, <<" ">>)),
          current_chunk  |-> <<>>,
          current_length |-> 0]
    ELSE [chunks         |-> st.chunks,
          current_chunk  |-> Append(st.current_chunk, word),
          current_length |-> st.current_length + Len(word) + 1]

\* the body of the for loop, main.rs:74-81
SplitStep(st, word, limit) ==
    IF st.current_length + Len(word) + 1 > limit
    THEN [chunks         |-> Append(st.chunks, join(st.current_chunk, <<" ">>)),
          current_chunk  |-> <<word>>,
          current_length |-> Len(word)]
    ELSE [chunks         |-> st.chunks,
          current_chunk  |-> Append(st.current_chunk, word),
          current_length |-> st.current_length + Len(word) + 1]

\* the state of split_input at its entry, main.rs:69-73
SplitInit ==
    /\ input_text \in Texts
    /\ max_length \in 1..MaxMaxLength
    /\ words = split_whitespace(input_text)
    /\ chunks = <<>>
    /\ current_chunk = <<>>
    /\ current_length = 0
    /\ spc = "loop"

\* one iteration of `for word in input_text.split_whitespace()`
SplitWord ==
    /\ spc = "loop"
    /\ words # <<>>
    /\ LET st == SplitStep([chunks |-> chunks, current_chunk |-> current_chunk,
                            current_length |-> current_length],
                           Head(words), max_length)
       IN /\ chunks' = st.chunks
          /\ current_chunk' = st.current_chunk
          /\ current_length' = st.current_length
    /\ words' = Tail(words)
    /\ UNCHANGED <<input_text, max_length, spc>>
    /\ UNCHANGED pipeVars

\* after the loop: the last chunk is pushed when it is not empty, main.rs:84-88
SplitFinish ==
    /\ spc = "loop"
    /\ words = <<>>
    /\ chunks' = IF current_chunk # <<>>
                 THEN Append(chunks, join(current_chunk, <<" ">>))
                 ELSE chunks
    /\ spc' = "done"
    /\ UNCHANGED <<input_text, max_length, words, current_chunk, current_length>>
    /\ UNCHANGED pipeVars

\* the pipeline at rest, for the specification of split_input alone
PipeIdle ==
    /\ mode = "play" /\ nchunks = 0 /\ api_key = TRUE
    /\ mainPc = "exited" /\ handle = 0 /\ audio_tx = FALSE
    /\ exit_code = "success"
    /\ task = <<>> /\ outcome = <<>> /\ calls = <<>> /\ sent = <<>>
    /\ reported = {}
    /\ chan = <<>>
    /\ cons = "cancelled" /\ file = <<>> /\ write_failed = FALSE
    /\ buffer = <<>> /\ next_index = 0
    /\ received = {} /\ early = {} /\ released = <<>> /\ played = <<>>
    /\ skipped = {} /\ sink_failed = {}
    /\ ref = [pending |-> <<>>, next_index |-> 0, released |-> <<>>]

InitChunk == SplitInit /\ PipeIdle
NextChunk == SplitWord \/ SplitFinish
SpecChunk == InitChunk /\ [][NextChunk]_vars

\* --------------------------------------------------- claims on split_input
normalized(s) == join(split_whitespace(s), <<" ">>)

\* C9: joining the chunks split_input returns with single spaces gives the
\* whitespace-normalized input, with no leading, trailing or doubled space.
C9_RoundTrip ==
    spc = "done" => join(chunks, <<" ">>) = normalized(input_text)

IsToken(c) == \A j \in 1..Len(c) : c[j] \notin Whitespace

\* C10: every chunk is at most max_length bytes long, except a chunk that is
\* one single token of the input which is itself longer than max_length; a
\* chunk of two or more tokens never exceeds max_length.
C10_LengthBound ==
    \A k \in 1..Len(chunks) :
        Len(chunks[k]) > max_length =>
            /\ IsToken(chunks[k])
            /\ \E w \in 1..Len(split_whitespace(input_text)) :
                   split_whitespace(input_text)[w] = chunks[k]

\* a finished split with a chunk of several tokens that fills the limit
\* exactly, next to an earlier chunk
C10_Witness ==
    /\ spc = "done"
    /\ \E k \in 2..Len(chunks) :
           /\ ~IsToken(chunks[k])
           /\ Len(chunks[k]) = max_length

\* C11: every chunk split_input produces is a non-empty string (so k
\* single-character words under a limit of one word per chunk give k chunks).
C11_ChunksNonEmpty ==
    \A k \in 1..Len(chunks) : chunks[k] # <<>>

\* the tokens of the chunks, in chunk order (an empty chunk holds no token)
RECURSIVE TokensOf(_)
TokensOf(cs) ==
    IF cs = <<>> THEN <<>>
    ELSE split_whitespace(Head(cs)) \o TokensOf(Tail(cs))

\* C18: the tokens of the chunks, taken chunk by chunk, are exactly the
\* whitespace-delimited tokens of the input, in order: none is split across
\* chunks, dropped, duplicated or reordered, also when longer than
\* max_length; each chunk is its tokens joined by single spaces.  During the
\* loop the same holds with the open chunk and the words still to come.
C18_TokensPreserved ==
    /\ \A k \in 1..Len(chunks) :
           chunks[k] = join(split_whitespace(chunks[k]), <<" ">>)
    /\ IF spc = "done"
       THEN TokensOf(chunks) = split_whitespace(input_text)
       ELSE TokensOf(chunks) \o current_chunk \o words
                = split_whitespace(input_text)

\* a finished split of several tokens, one of them longer than the limit
C18_Witness ==
    /\ spc = "done"
    /\ Len(split_whitespace(input_text)) >= 2
    /\ \E k \in 1..Len(chunks) : Len(chunks[k]) > max_length
    /\ Len(chunks) >= 3

\* ================================================================ pipeline
Indices  == 0..(nchunks - 1)
\* how the synthesis call of one chunk ends (main.rs:106-122):
\*   ReqErr   send().await is Err
\*   BodyErr  Ok(resp), resp.bytes().await is Err
\*   HttpErr  Ok(resp) with an error status, its body is the service's error
\*   Audio    Ok(resp) with the audio of the chunk as its body
Outcomes == {"ReqErr", "BodyErr", "HttpErr", "Audio"}
Failures == {"ReqErr", "BodyErr", "HttpErr"}

\* the body of the response to chunk i
BodyOf(i, o) == [of |-> i, kind |-> IF o = "Audio" THEN "audio" ELSE "error"]

EmptyMap == [j \in {} |-> 0]
\* what println! tells about a failure, main.rs:126
Report(what, i) == [what |-> what, index |-> i]
Finished(i) == task[i] \in {"done", "panicked"}

\* every Sender is dropped: main's (main.rs:251) and each task's clone
Closed == ~audio_tx /\ \A i \in Indices : Finished(i)
\* a plausible slip: the Receiver outlives the consumer (kept in main)
RxAliveAlways == TRUE

\* the Receiver lives in the consumer task
RxAlive == cons \notin {"done", "panicked", "cancelled"}

\* the state after main.rs:238: the channel exists, every fetch task is
\* spawned, the consumer is not
Init ==
    /\ mode \in {"file", "play"}
    /\ nchunks \in 0..MaxChunks
    /\ api_key \in BOOLEAN
    /\ mainPc = "spawn_consumer" /\ handle = 0 /\ audio_tx = TRUE
    /\ exit_code = "running"
    /\ task = [i \in Indices |-> "call"]
    /\ outcome = [i \in Indices |-> "none"]
    /\ calls = [i \in Indices |-> 0]
    /\ sent = [i \in Indices |-> 0]
    /\ reported = {}
    /\ chan = <<>>
    /\ cons = "unspawned" /\ file = <<>> /\ write_failed = FALSE
    /\ buffer = EmptyMap /\ next_index = 0
    /\ received = {} /\ early = {} /\ released = <<>> /\ played = <<>>
    /\ skipped = {} /\ sink_failed = {}
    /\ ref = [pending |-> EmptyMap, next_index |-> 0, released |-> <<>>]
    \* split_input is not running
    /\ input_text = <<>> /\ max_length = 1 /\ words = <<>> /\ chunks = <<>>
    /\ current_chunk = <<>> /\ current_length = 0 /\ spc = "done"

\* ------------------------------------------------ fetch_and_process_audio
\* whether the task goes on to audio_tx.send: main.rs:120-127 sends whenever
\* the response arrived and its body could be read, whatever the status
Publishes(o) == o \in {"HttpErr", "Audio"}

\* a plausible slip: the fragment is tagged with a shared counter, not with
\* the task's own index
MessageUntagged(i) == <<0, BodyOf(i, outcome[i])>>

\* the pair sent at main.rs:123
Message(i) == <<i, BodyOf(i, outcome[i])>>

\* std::env::var("OPENAI_API_KEY").expect(..) panics, main.rs:103-104
FetchPanic(i) ==
    /\ task[i] = "call"
    /\ ~api_key
    /\ task' = [task EXCEPT ![i] = "panicked"]
    /\ UNCHANGED <<outcome, calls, sent, reported, chan,
                   mainVars, consVars, chunkVars>>

\* the request and the reading of its body end, main.rs:106-127
FetchRespond(i, o) ==
    /\ task[i] = "call"
    /\ api_key
    /\ outcome' = [outcome EXCEPT ![i] = o]
    /\ calls' = [calls EXCEPT ![i] = @ + 1]
    /\ reported' = IF o = "ReqErr" THEN reported \cup {Report("synthesis", i)}
                 ELSE reported
    /\ task' = [task EXCEPT ![i] = IF Publishes(o) THEN "send" ELSE "done"]
    /\ UNCHANGED <<sent, chan, mainVars, consVars, chunkVars>>

\* audio_tx.send((index, bytes)).await gets a slot, main.rs:123
FetchSend(i) ==
    /\ task[i] = "send"
    /\ RxAlive
    /\ Len(chan) < ChannelCapacity
    /\ chan' = Append(chan, Message(i))
    /\ sent' = [sent EXCEPT ![i] = @ + 1]
    /\ task' = [task EXCEPT ![i] = "done"]
    /\ UNCHANGED <<outcome, calls, reported, mainVars, consVars, chunkVars>>

\* the Receiver is gone: send is Err, ignored by `let _ =`, main.rs:123
FetchSendErr(i) ==
    /\ task[i] = "send"
    /\ ~RxAlive
    /\ task' = [task EXCEPT ![i] = "done"]
    /\ UNCHANGED <<outcome, calls, sent, reported, chan,
                   mainVars, consVars, chunkVars>>

\* -------------------------------------------------------------------- main
\* main.rs:240-244: the consumer is spawned and its JoinHandle dropped
MainSpawnConsumer ==
    /\ mainPc = "spawn_consumer"
    /\ cons' = "spawned"
    /\ mainPc' = "await"
    /\ UNCHANGED <<mode, nchunks, api_key, handle, audio_tx, exit_code,
                   file, write_failed, buffer, next_index, received, early, ref,
                   released, played, skipped, sink_failed,
                   fetchVars, chan, chunkVars>>

\* main.rs:246-248: `let _ = handle.await` for the next handle
MainAwait ==
    /\ mainPc = "await"
    /\ handle < nchunks
    /\ Finished(handle)
    /\ handle' = handle + 1
    /\ UNCHANGED <<mode, nchunks, api_key, mainPc, audio_tx, exit_code,
                   fetchVars, chan, consVars, chunkVars>>

\* main.rs:251: drop(audio_tx)
MainDropTx ==
    /\ mainPc = "await"
    /\ handle = nchunks
    /\ audio_tx' = FALSE
    /\ mainPc' = "return"
    /\ UNCHANGED <<mode, nchunks, api_key, handle, exit_code,
                   fetchVars, chan, consVars, chunkVars>>

\* main.rs:252: main returns (), block_on ends and the runtime is dropped
MainReturn ==
    /\ mainPc = "return"
    /\ mainPc' = "shutdown"
    /\ UNCHANGED <<mode, nchunks, api_key, handle, audio_tx, exit_code,
                   fetchVars, chan, consVars, chunkVars>>

\* where the runtime's shutdown drops the consumer: an async task that is
\* not being polled (never polled, or suspended in recv().await, main.rs:155)
\* and a spawn_blocking closure that has not started (main.rs:131); a
\* closure that is running is waited for
Cancellable == {"spawned", "parked"}

RuntimeCancel ==
    /\ mainPc = "shutdown"
    /\ cons \in Cancellable
    /\ cons' = "cancelled"
    /\ chan' = <<>>
    /\ UNCHANGED <<file, write_failed, buffer, next_index, received, early, ref,
                   released, played, skipped, sink_failed,
                   mainVars, fetchVars, chunkVars>>

\* the status the process ends with: main has no failing path after the
\* tasks are spawned, and a panic in a spawned task stays in that task
ExitStatus == "success"

ProcessExit ==
    /\ mainPc = "shutdown"
    /\ cons \in {"done", "panicked", "cancelled"}
    /\ mainPc' = "exited"
    /\ exit_code' = ExitStatus
    /\ UNCHANGED <<mode, nchunks, api_key, handle, audio_tx,
                   fetchVars, chan, consVars, chunkVars>>

\* ---------------------------------------------------- audio_to_output_file
\* first poll: File::create(file_path).unwrap(), main.rs:154
WriterStart(created) ==
    /\ mode = "file"
    /\ cons = "spawned"
    /\ cons' = IF created THEN "polling" ELSE "panicked"
    /\ chan' = IF created THEN chan ELSE <<>>
    /\ UNCHANGED <<file, write_failed, buffer, next_index, received, early, ref,
                   released, played, skipped, sink_failed,
                   mainVars, fetchVars, chunkVars>>

\* a plausible slip: the failed write is logged and the loop goes on
WriterRecvContinues(ok, part) ==
    /\ mode = "file"
    /\ cons = "polling"
    /\ chan # <<>>
    /\ LET index == Head(chan)[1]
           bytes == Head(chan)[2]
       IN /\ received' = received \cup {index}
          /\ file' = IF ok THEN Append(file, [bytes |-> bytes, whole |-> TRUE])
                     ELSE IF part
                          THEN Append(file, [bytes |-> bytes, whole |-> FALSE])
                          ELSE file
    /\ write_failed' = (write_failed \/ ~ok)
    /\ cons' = "polling"
    /\ chan' = Tail(chan)
    /\ UNCHANGED <<buffer, next_index, early, ref, released, played, skipped,
                   sink_failed, mainVars, fetchVars, chunkVars>>

\* recv().await is Some: write_all(&bytes).unwrap(), main.rs:155-156.  The
\* index of the pair is not looked at.  A failing write_all may have written
\* a part of the bytes.
WriterRecv(ok, part) ==
    /\ mode = "file"
    /\ cons = "polling"
    /\ chan # <<>>
    /\ LET index == Head(chan)[1]
           bytes == Head(chan)[2]
       IN /\ received' = received \cup {index}
          /\ file' = IF ok THEN Append(file, [bytes |-> bytes, whole |-> TRUE])
                     ELSE IF part
                          THEN Append(file, [bytes |-> bytes, whole |-> FALSE])
                          ELSE file
    /\ write_failed' = (write_failed \/ ~ok)
    /\ cons' = IF ok THEN "polling" ELSE "panicked"
    /\ chan' = IF ok THEN Tail(chan) ELSE <<>>
    /\ UNCHANGED <<buffer, next_index, early, ref, released, played, skipped,
                   sink_failed, mainVars, fetchVars, chunkVars>>

\* recv().await is Pending: the task is suspended until a send or the
\* closing of the channel wakes it
WriterPark ==
    /\ mode = "file"
    /\ cons = "polling"
    /\ chan = <<>>
    /\ ~Closed
    /\ cons' = "parked"
    /\ UNCHANGED <<file, write_failed, buffer, next_index, received, early, ref,
                   released, played, skipped, sink_failed,
                   mainVars, fetchVars, chan, chunkVars>>

\* the woken task is polled again
WriterWake ==
    /\ mode = "file"
    /\ cons = "parked"
    /\ chan # <<>> \/ Closed
    /\ cons' = "polling"
    /\ UNCHANGED <<file, write_failed, buffer, next_index, received, early, ref,
                   released, played, skipped, sink_failed,
                   mainVars, fetchVars, chan, chunkVars>>

\* recv().await is None: the loop and the task end, main.rs:155-158
WriterEnd ==
    /\ mode = "file"
    /\ cons = "polling"
    /\ chan = <<>>
    /\ Closed
    /\ cons' = "done"
    /\ UNCHANGED <<file, write_failed, buffer, next_index, received, early, ref,
                   released, played, skipped, sink_failed,
                   mainVars, fetchVars, chan, chunkVars>>

\* --------------------------------------------------- play_audio_from_queue
\* a plausible slip: whatever lies in the buffer is played at once
ReleasableAny(buf, n) == DOMAIN buf

\* a plausible slip: a gap is skipped, the lowest buffered index is played
ReleasableLowest(buf, n) ==
    {k \in DOMAIN buf : \A j \in DOMAIN buf : k <= j}

\* the keys `buffer.remove(&next_index)` can remove, main.rs:138
Releasable(buf, n) == IF n \in DOMAIN buf THEN {n} ELSE {}

\* a plausible slip: the cursor moves only when the fragment was decoded
CursorAfterDecoded(n, decoded) == IF decoded THEN n + 1 ELSE n

\* a plausible slip: the cursor is not moved
CursorStays(n, decoded) == n

\* a plausible slip: the cursor is moved twice
CursorSkips(n, decoded) == n + 2

\* next_index += 1, main.rs:145: after the `if let`, decoded or not
CursorAfter(n, decoded) == n + 1

\* HashMap::insert, main.rs:137
Insert(buf, k, v) ==
    [j \in DOMAIN buf \cup {k} |-> IF j = k THEN v ELSE buf[j]]
\* HashMap::remove
Remove(buf, k) == [j \in DOMAIN buf \ {k} |-> buf[j]]

\* the transition of the design's reorder buffer: an arrival in turn is
\* released at once and the pending map drained, an early one is stored
RECURSIVE SpecDrain(_)
SpecDrain(st) ==
    IF st.next_index \in DOMAIN st.pending
    THEN SpecDrain([pending    |-> Remove(st.pending, st.next_index),
                    next_index |-> st.next_index + 1,
                    released   |-> Append(st.released, st.next_index)])
    ELSE st

on_arrival(st, index, fragment) ==
    IF index = st.next_index
    THEN SpecDrain([pending    |-> st.pending,
                    next_index |-> st.next_index + 1,
                    released   |-> Append(st.released, index)])
    ELSE [st EXCEPT !.pending = Insert(st.pending, index, fragment)]

\* Decoder::new_mp3 on the service's error body is an Err; on audio it is
\* Ok or Err (the requested format need not be mp3)
CanDecode(bytes) == IF bytes.kind = "audio" THEN BOOLEAN ELSE {FALSE}

\* the spawn_blocking closure starts:
\* OutputStream::try_default().unwrap(), main.rs:131-134
PlayerStart(device) ==
    /\ mode = "play"
    /\ cons = "spawned"
    /\ cons' = IF device THEN "recv" ELSE "panicked"
    /\ chan' = IF device THEN chan ELSE <<>>
    /\ UNCHANGED <<file, write_failed, buffer, next_index, received, early, ref,
                   released, played, skipped, sink_failed,
                   mainVars, fetchVars, chunkVars>>

\* a plausible slip: the player takes a fragment from the channel only when
\* it is the one to play next
PlayerRecvInTurn ==
    /\ mode = "play"
    /\ cons = "recv"
    /\ chan # <<>>
    /\ Head(chan)[1] = next_index
    /\ LET index == Head(chan)[1]
           bytes == Head(chan)[2]
       IN /\ buffer' = Insert(buffer, index, bytes)
          /\ received' = received \cup {index}
          /\ early' = early
          /\ ref' = on_arrival(ref, index, bytes)
    /\ chan' = Tail(chan)
    /\ cons' = "drain"
    /\ UNCHANGED <<file, write_failed, next_index, released, played, skipped,
                   sink_failed, mainVars, fetchVars, chunkVars>>

\* blocking_recv() is Some: buffer.insert(index, bytes), main.rs:136-137
PlayerRecv ==
    /\ mode = "play"
    /\ cons = "recv"
    /\ chan # <<>>
    /\ LET index == Head(chan)[1]
           bytes == Head(chan)[2]
       IN /\ buffer' = Insert(buffer, index, bytes)
          /\ received' = received \cup {index}
          /\ early' = IF index # next_index THEN early \cup {index} ELSE early
          /\ ref' = on_arrival(ref, index, bytes)
    /\ chan' = Tail(chan)
    /\ cons' = "drain"
    /\ UNCHANGED <<file, write_failed, next_index, released, played, skipped,
                   sink_failed, mainVars, fetchVars, chunkVars>>

\* one turn of the inner while, main.rs:138-146: remove, decode, play to the
\* end, advance.  Sink::try_new(..).unwrap() panics when the device is gone.
PlayerRelease(decoded, sink) ==
    /\ mode = "play"
    /\ cons = "drain"
    /\ \E k \in Releasable(buffer, next_index) :
          /\ decoded \in CanDecode(buffer[k])
          /\ buffer' = Remove(buffer, k)
          /\ released' = Append(released, k)
          /\ IF ~decoded
             THEN /\ skipped' = skipped \cup {k}
                  /\ next_index' = CursorAfter(next_index, decoded)
                  /\ UNCHANGED <<played, sink_failed, cons, chan>>
             ELSE IF sink
             THEN /\ played' = Append(played, k)
                  /\ next_index' = CursorAfter(next_index, decoded)
                  /\ UNCHANGED <<skipped, sink_failed, cons, chan>>
             ELSE /\ sink_failed' = sink_failed \cup {k}
                  /\ cons' = "panicked"
                  /\ chan' = <<>>
                  /\ UNCHANGED <<played, skipped, next_index>>
    /\ UNCHANGED <<file, write_failed, received, early, ref,
                   mainVars, fetchVars, chunkVars>>

\* buffer.remove(&next_index) is None: back to blocking_recv, main.rs:138
PlayerDrained ==
    /\ mode = "play"
    /\ cons = "drain"
    /\ Releasable(buffer, next_index) = {}
    /\ cons' = "recv"
    /\ UNCHANGED <<file, write_failed, buffer, next_index, received, early, ref,
                   released, played, skipped, sink_failed,
                   mainVars, fetchVars, chan, chunkVars>>

\* a plausible slip: the loop ends as soon as the channel is empty
\* (try_recv instead of blocking_recv)
PlayerEndOnEmpty ==
    /\ mode = "play"
    /\ cons = "recv"
    /\ chan = <<>>
    /\ cons' = "done"
    /\ UNCHANGED <<file, write_failed, buffer, next_index, received, early, ref,
                   released, played, skipped, sink_failed,
                   mainVars, fetchVars, chan, chunkVars>>

\* blocking_recv() is None: the loop and the closure end, main.rs:136-148
PlayerEnd ==
    /\ mode = "play"
    /\ cons = "recv"
    /\ chan = <<>>
    /\ Closed
    /\ cons' = "done"
    /\ UNCHANGED <<file, write_failed, buffer, next_index, received, early, ref,
                   released, played, skipped, sink_failed,
                   mainVars, fetchVars, chan, chunkVars>>

\* ------------------------------------------------------------ specification
Next ==
    \/ \E i \in Indices : FetchPanic(i)
    \/ \E i \in Indices, o \in Outcomes : FetchRespond(i, o)
    \/ \E i \in Indices : FetchSend(i)
    \/ \E i \in Indices : FetchSendErr(i)
    \/ MainSpawnConsumer
    \/ MainAwait
    \/ MainDropTx
    \/ MainReturn
    \/ RuntimeCancel
    \/ ProcessExit
    \/ \E created \in BOOLEAN : WriterStart(created)
    \/ \E ok \in BOOLEAN, part \in BOOLEAN : WriterRecv(ok, part)
    \/ WriterPark
    \/ WriterWake
    \/ WriterEnd
    \/ \E device \in BOOLEAN : PlayerStart(device)
    \/ PlayerRecv
    \/ \E decoded \in BOOLEAN, sink \in BOOLEAN : PlayerRelease(decoded, sink)
    \/ PlayerDrained
    \/ PlayerEnd

Spec == Init /\ [][Next]_vars

\* the steps of main, of the runtime's shutdown and of the consumer task;
\* each of the three is sequential: at most one of its steps can be taken
MainStep == MainSpawnConsumer \/ MainAwait \/ MainDropTx \/ MainReturn
RuntimeStep == RuntimeCancel \/ ProcessExit
ConsumerStep ==
    \/ \E created \in BOOLEAN : WriterStart(created)
    \/ \E ok \in BOOLEAN, part \in BOOLEAN : WriterRecv(ok, part)
    \/ WriterPark
    \/ WriterWake
    \/ WriterEnd
    \/ \E device \in BOOLEAN : PlayerStart(device)
    \/ PlayerRecv
    \/ \E decoded \in BOOLEAN, sink \in BOOLEAN : PlayerRelease(decoded, sink)
    \/ PlayerDrained
    \/ PlayerEnd

\* What the tokio scheduler guarantees: a task that can run is run, main
\* goes on, and a sender waiting for a slot of the channel gets one once
\* a slot stays free.  Every task sends at most once, so the other senders
\* take the slot from a waiting one only finitely often and weak fairness
\* is enough.
Scheduling ==
    /\ \A i \in 0..MaxChunks :
          /\ WF_vars(i \in Indices /\ FetchSend(i))
          /\ WF_vars(i \in Indices /\ (FetchSendErr(i) \/ FetchPanic(i)))
    /\ WF_vars(MainStep)
    /\ WF_vars(RuntimeStep)
    /\ WF_vars(ConsumerStep)

\* the service answers every request in the end
ServiceAnswers ==
    \A i \in 0..MaxChunks :
        WF_vars(i \in Indices /\ \E o \in Outcomes : FetchRespond(i, o))

\* a synthesis call may hang for ever
SpecHang == Spec /\ Scheduling
\* every synthesis call returns
SpecFair == Spec /\ Scheduling /\ ServiceAnswers

\* ---------------------------------------------------- claims on the pipeline
\* the sequence 0, 1, .., n-1
UpTo(n) == [a \in 1..n |-> a - 1]

\* the lowest index the consumer has not received (nchunks when there is none)
FirstMissing ==
    CHOOSE k \in 0..nchunks :
        /\ k = nchunks \/ k \notin received
        /\ \A j \in 0..(k - 1) : j \in received

\* C1: the indices the player removes from its buffer for playback form a
\* strictly increasing sequence, whatever the order of arrival and whichever
\* indices never arrive: none is released twice or before a lower one.
C1_ReleaseStrictlyIncreasing ==
    \A a \in 1..Len(released) : \A b \in 1..Len(released) :
        a < b => released[a] < released[b]

\* the player ended after fragments arrived out of turn and one never came
C1_Witness ==
    /\ mode = "play" /\ cons = "done"
    /\ Len(released) >= 2
    /\ early # {}
    /\ \E k \in Indices : k \notin received

\* C2: the writer appends the fragments in strictly increasing chunk-index
\* order, whatever the order in which they arrive on the channel.
C2_FileInIndexOrder ==
    \A a \in 1..Len(file) : \A b \in 1..Len(file) :
        a < b => file[a].bytes.of < file[b].bytes.of

\* C3: when index k is never received and the channel closes, nothing above
\* k is ever released although it lies in the buffer; the player ends having
\* released exactly 0..k-1.
C3_GapBlocksRelease ==
    /\ \A a \in 1..Len(released) :
           \A j \in 0..released[a] : j \in received
    /\ (mode = "play" /\ cons = "done") => released = UpTo(FirstMissing)

\* the player ended with a gap at k >= 1 and a later fragment still buffered
C3_Witness ==
    /\ mode = "play" /\ cons = "done"
    /\ FirstMissing \in 1..(nchunks - 1)
    /\ released = UpTo(FirstMissing)
    /\ \E j \in DOMAIN buffer : j > FirstMissing

\* C4: once all N fragments have been received, in whatever order, the
\* reorder loop (back at its receive) has released exactly 0, 1, .., N-1.
C4_AllReceivedAllReleased ==
    (mode = "play" /\ cons \in {"recv", "done"} /\ received = Indices)
        => released = UpTo(nchunks)

\* three or more fragments, all but index 0 arrived before their turn, and
\* the player released all of them in index order
C4_Witness ==
    /\ mode = "play" /\ cons = "done"
    /\ nchunks >= 3
    /\ early = 1..(nchunks - 1)
    /\ released = UpTo(nchunks)

\* C5: when every synthesis call succeeds and the consumer does not fail,
\* the process does not end before the consumer has consumed all N
\* published fragments.
C5_RunWaitsForConsumer ==
    ( /\ mainPc = "exited"
      /\ api_key
      /\ \A i \in Indices : outcome[i] = "Audio"
      /\ cons # "panicked" /\ skipped = {} )
        => received = Indices

\* C6: a chunk whose synthesis failed (request error, unreadable body, or an
\* error answer of the service) is never sent into the channel, so the
\* consumer never receives a fragment for it.
C6_FailurePublishesNothing ==
    \A i \in Indices :
        outcome[i] \in Failures => (sent[i] = 0 /\ i \notin received)

\* C7: a failed append to the output file ends the run with a fatal result.
C7_WriteFailureIsFatal ==
    (mainPc = "exited" /\ write_failed) => exit_code = "fatal"

Playable(k) == k \notin (skipped \cup sink_failed)

\* C8: a fragment that fails to decode is skipped and nothing more: the
\* cursor is past it, the step leaves the player in its drain loop, every
\* other released fragment is played in release order (unless the creation
\* of its sink panicked), and at the loop head every fragment up to the first
\* missing index has been released.
C8_DecodeFailureIsLocal ==
    /\ [](/\ \A i \in skipped : i < next_index
          /\ played = SelectSeq(released, Playable)
          /\ (mode = "play" /\ cons \in {"recv", "done"})
                => Len(released) = FirstMissing
          /\ exit_code # "fatal")
    /\ [][skipped' # skipped => (cons' = "drain" /\ next_index' = next_index + 1)]_vars

\* three fragments, the middle one failed to decode, the other two played
C8_Witness ==
    /\ mode = "play" /\ cons = "done"
    /\ nchunks >= 3
    /\ skipped = {1}
    /\ played = <<0, 2>>

\* the indices of the fragments waiting in the channel
InChannel == {chan[a][1] : a \in 1..Len(chan)}

\* C12 as claimed: exactly N tasks with indices 0..N-1, each makes exactly
\* one synthesis call, sends at most one fragment, tagged with its own index.
C12_ExactlyOneCall ==
    /\ DOMAIN task = Indices
    /\ \A i \in Indices : Finished(i) => calls[i] = 1
    /\ \A i \in Indices : sent[i] <= 1
    /\ \A a \in 1..Len(chan) : chan[a][1] = chan[a][2].of

\* C12 as amended: each task makes at most one synthesis call, exactly one
\* when it ran to its end, and none only when it panicked on the missing
\* OPENAI_API_KEY; it sends at most one fragment, tagged with its own index,
\* so no index is in the channel twice or again after it was received.
C12_AtMostOneCall ==
    /\ DOMAIN task = Indices
    /\ \A i \in Indices :
          /\ calls[i] <= 1
          /\ sent[i] <= 1
          /\ task[i] = "done" => calls[i] = 1
          /\ task[i] = "panicked" => (~api_key /\ calls[i] = 0)
    /\ \A a \in 1..Len(chan) : chan[a][1] = chan[a][2].of
    /\ \A k \in DOMAIN buffer : buffer[k].of = k
    /\ \A a \in 1..Len(chan) : \A b \in 1..Len(chan) :
          a < b => chan[a][1] # chan[b][1]
    /\ InChannel \cap received = {}

\* every task of a run of three chunks ended after one call and one send
C12_Witness ==
    /\ nchunks >= 3
    /\ \A i \in Indices : task[i] = "done" /\ calls[i] = 1 /\ sent[i] = 1

Occurrences(seq, x) == Cardinality({a \in 1..Len(seq) : seq[a] = x})

\* C13: next_index starts at 0; the buffer never holds an index below
\* next_index; every index below next_index has been released exactly once;
\* next_index changes only by +1, together with the release of that index.
C13_ReorderInvariant ==
    /\ next_index = 0
    /\ [](/\ \A k \in DOMAIN buffer : k >= next_index
          /\ \A j \in 0..(next_index - 1) : Occurrences(released, j) = 1)
    /\ [][next_index' # next_index =>
             /\ next_index' = next_index + 1
             /\ released' = Append(released, next_index)]_vars

\* the cursor has moved once and a later fragment waits in the buffer
C13_Witness ==
    /\ mode = "play"
    /\ next_index = 1
    /\ released = <<0>>
    /\ 2 \in DOMAIN buffer

\* C14: after each arrival has been worked off (the player is back at its
\* receive, or ended), the code's insert-then-drain has produced the same
\* released sequence, pending map and next_index as the design's transition
\* (release at once and drain when in turn, store otherwise).
C14_CodeMatchesDesign ==
    (mode = "play" /\ cons \in {"recv", "done"})
        => ref = [pending |-> buffer, next_index |-> next_index,
                  released |-> released]

\* index 1 arrived early and was stored, then index 0 arrived in turn and
\* both were released; index 2 has not arrived
C14_Witness ==
    /\ mode = "play" /\ cons = "recv"
    /\ early = {1}
    /\ received = {0, 1}
    /\ released = <<0, 1>>
    /\ ref.released = <<0, 1>>

\* C15: the consumer sees the channel closed only after main dropped its
\* sender and every fetch task has finished, with nothing left in the
\* channel; and a fragment that was sent and not yet received stays in the
\* channel for the live consumer, also after the last sender is gone.
C15_ClosedOnlyAfterTasks ==
    /\ cons = "done" =>
          /\ ~audio_tx
          /\ \A i \in Indices : Finished(i)
          /\ chan = <<>>
          /\ \A i \in Indices : sent[i] > 0 => i \in received
    /\ RxAlive =>
          \A i \in Indices : (sent[i] > 0 /\ i \notin received) => i \in InChannel

\* every sender is gone, a fragment is still queued and the consumer is at
\* its receive
C15_Witness ==
    /\ Closed
    /\ chan # <<>>
    /\ cons \in {"recv", "polling"}

\* C17: every chunk whose synthesis failed in its fetch task (request error
\* or unreadable body) and every fragment that failed to decode in the player
\* has been reported.
C17_FailuresReported ==
    /\ \A i \in Indices :
          outcome[i] \in {"ReqErr", "BodyErr"}
              => Report("synthesis", i) \in reported
    /\ \A i \in skipped : Report("decode", i) \in reported

\* the fragments the file holds in full
WholeInFile == {a \in 1..Len(file) : file[a].whole}

\* C19 as claimed: after a failed append the file holds exactly the bytes of
\* the fragments appended before the failure.
C19_FileExactlyBeforeFailure ==
    write_failed => \A a \in 1..Len(file) : file[a].whole

\* C19 as amended: once an append has failed the writer receives and appends
\* nothing more; the file holds the fragments appended before the failure in
\* full, followed at most by a part of the fragment whose write failed.
C19_NothingAfterWriteFailure ==
    /\ [](mode = "file" =>
            /\ \A a \in 1..(Len(file) - 1) : file[a].whole
            /\ ~write_failed =>
                  (Len(file) = Cardinality(received) /\ WholeInFile = 1..Len(file))
            /\ write_failed =>
                  /\ cons = "panicked"
                  /\ Cardinality(WholeInFile) = Cardinality(received) - 1)
    /\ [][write_failed => (file' = file /\ received' = received)]_vars

\* the write of the 2nd fragment failed, the file holds the 1st in full and
\* nothing else, and the run is over
C19_Witness ==
    /\ write_failed
    /\ mainPc = "exited"
    /\ Cardinality(received) = 2
    /\ Len(file) = 1 /\ file[1].whole

\* C16 as claimed: while some call hangs, a task whose synthesis succeeded
\* gets its fragment into the channel; stated on the finished task, which
\* can no longer send.
C16_SucceededMeansSent ==
    \A i \in Indices :
        ( /\ task[i] = "done"
          /\ outcome[i] = "Audio"
          /\ \E h \in Indices : task[h] = "call" )
            => sent[i] = 1

\* C16 as amended: whatever calls hang, no task that has its audio stays
\* waiting to send: it gets the fragment into the channel (the consumer keeps
\* receiving while it waits on a gap), and it ends without having sent only
\* when the consumer has panicked (then the send fails and the error is
\* ignored).
C16_HangDoesNotBlockOthers ==
    /\ <>[](\A i \in Indices : task[i] # "send")
    /\ [](\A i \in Indices :
            (task[i] = "done" /\ Publishes(outcome[i]) /\ sent[i] = 0)
                => cons = "panicked")

\* the call of chunk 0 hangs; the others, more than the channel holds, have
\* all sent, and the player keeps their fragments in its buffer
C16_Witness ==
    /\ mode = "play" /\ cons = "recv"
    /\ nchunks - 1 > ChannelCapacity
    /\ task[0] = "call"
    /\ \A i \in Indices \ {0} : sent[i] = 1
    /\ DOMAIN buffer = Indices \ {0}

\* C20: when every synthesis call returns, every fetch task ends and main
\* gets to drop its sender and return, whatever the number of chunks and
\* also when the consumer has stopped early.
C20_MainReturns ==
    <>( /\ \A i \in Indices : Finished(i)
        /\ ~audio_tx
        /\ mainPc \in {"shutdown", "exited"} )

\* the consumer panicked, and with more chunks than slots a task that had
\* its audio ended on the send error; main has returned
C20_Witness ==
    /\ cons = "panicked"
    /\ nchunks > ChannelCapacity
    /\ mainPc \in {"shutdown", "exited"}
    /\ \E i \in Indices :
          task[i] = "done" /\ outcome[i] = "Audio" /\ sent[i] = 0
====
